---- MODULE Spec2Model ----
(***************************************************************************)
(* The filter algebra of prompt_toolkit/filters/base.py as a state machine. *)
(*                                                                         *)
(* The state is the heap of objects that exist (an object's identity is    *)
(* its index in the heap) and the observation of the latest operation:     *)
(* what was called, on what, what it returned or raised, and the heap it   *)
(* started from.  The application state that the leaf callbacks read       *)
(* belongs to the host: an evaluation takes it as its input.               *)
(***************************************************************************)
EXTENDS Integers, Sequences, FiniteSets, TLC

\* Bounds of the model.
MaxFilters == 3        \* filters that may be allocated
MaxLen == 2            \* longest iterable handed to create() directly
MaxEntries == 2        \* entries that the and/or caches may hold, all told

\* The value 0 stands for an argument that is no object of the heap at all
\* (a plain bool such as True, which FilterOrBool call sites tend to pass).
PlainValue == 0

VARIABLES heap, last, prev

vars == <<heap, last, prev>>

-----------------------------------------------------------------------------
\* Classes and callbacks

FilterClasses == {"_Condition", "_AndList", "_OrList", "_Invert", "Always", "Never"}

\* The zero-argument callbacks that call sites wrap: one reads the application
\* state (the input mode of the Vi state), one fails.
Funcs == {"vi_insert_mode", "raising"}

Modes == {"insert", "navigation"}

AppStates == [input_mode : Modes]

\* An object of class cls; every Filter carries the three fields of
\* Filter.__init__, a leaf its func, a list its filters, a negation its filter.
Object(cls, func, filters, filter) ==
    [cls |-> cls, func |-> func, filters |-> filters, filter |-> filter,
     and_cache |-> <<>>, or_cache |-> <<>>, invert_result |-> 0]

Ids(h) == 1..Len(h)

isinstance(h, v, classes) == v \in Ids(h) /\ h[v].cls \in classes

IsFilter(h, v) == isinstance(h, v, FilterClasses)

\* What an operation hands back: an object, a bool, or an exception; invoked
\* is the set of leaves whose callback ran.
RetObj(i) == [kind |-> "obj", obj |-> i, b |-> FALSE, exc |-> "", invoked |-> {}]

RetBool(b, inv) == [kind |-> "bool", obj |-> 0, b |-> b, exc |-> "", invoked |-> inv]

Raise(e, inv) == [kind |-> "raise", obj |-> 0, b |-> FALSE, exc |-> e, invoked |-> inv]

-----------------------------------------------------------------------------
\* Evaluation: __call__ of each class

\* The callback of a leaf, in application state s.
CallFunc(f, s, leaf) ==
    IF f = "vi_insert_mode" THEN RetBool(s.input_mode = "insert", {leaf})
    ELSE Raise("RuntimeError", {leaf})

RECURSIVE Filter__call__(_, _, _)
RECURSIVE all(_, _, _, _)
RECURSIVE any(_, _, _, _)

\* all(f() for f in fs[k..]): stops at the first child that is not True.
all(h, s, fs, k) ==
    IF k > Len(fs) THEN RetBool(TRUE, {})
    ELSE LET r == Filter__call__(h, s, fs[k]) IN
         IF r.kind = "bool" /\ r.b
         THEN LET rest == all(h, s, fs, k + 1) IN
              [rest EXCEPT !.invoked = r.invoked \cup rest.invoked]
         ELSE r

\* any(f() for f in fs[k..]): stops at the first child that is not False.
any(h, s, fs, k) ==
    IF k > Len(fs) THEN RetBool(FALSE, {})
    ELSE LET r == Filter__call__(h, s, fs[k]) IN
         IF r.kind = "bool" /\ ~r.b
         THEN LET rest == any(h, s, fs, k + 1) IN
              [rest EXCEPT !.invoked = r.invoked \cup rest.invoked]
         ELSE r

_AndList__call__(h, s, i) == all(h, s, h[i].filters, 1)

_OrList__call__(h, s, i) == any(h, s, h[i].filters, 1)

\* A negation that hands its filter's value on as it is.
_Invert__call__unnegated(h, s, i) == Filter__call__(h, s, h[i].filter)

_Invert__call__(h, s, i) ==
    LET r == Filter__call__(h, s, h[i].filter) IN
    IF r.kind = "bool" THEN RetBool(~r.b, r.invoked) ELSE r

Always__call__ == RetBool(TRUE, {})

Never__call__ == RetBool(FALSE, {})

_Condition__call__(h, s, i) == CallFunc(h[i].func, s, i)

Filter__call__(h, s, i) ==
    CASE h[i].cls = "_Condition" -> _Condition__call__(h, s, i)
      [] h[i].cls = "_AndList" -> _AndList__call__(h, s, i)
      [] h[i].cls = "_OrList" -> _OrList__call__(h, s, i)
      [] h[i].cls = "_Invert" -> _Invert__call__(h, s, i)
      [] h[i].cls = "Always" -> Always__call__
      [] OTHER -> Never__call__

-----------------------------------------------------------------------------
\* Construction

\* An operation's outcome: the heap it leaves and what it hands back.
Out(h, r) == [heap |-> h, ret |-> r]

\* cls(...): a new object, whose identity is the next free index.
New(h, o) == Out(Append(h, o), RetObj(Len(h) + 1))

\* Always as a singleton: the one Always there is, once there is one.
SingletonAlways(h) ==
    IF \E i \in Ids(h) : h[i].cls = "Always"
    THEN Out(h, RetObj(CHOOSE i \in Ids(h) : h[i].cls = "Always"))
    ELSE New(h, Object("Always", "", <<>>, 0))

\* Always()
NewAlways(h) == New(h, Object("Always", "", <<>>, 0))

\* Never()
NewNever(h) == New(h, Object("Never", "", <<>>, 0))

Range(fs) == {fs[k] : k \in DOMAIN fs}

\* The lists list(set(filters)) can be: the distinct elements, in any order
\* (a set of objects hashed by address iterates in no order the code fixes).
Orders(S) == {q \in [1..Cardinality(S) -> S] : Range(q) = S}

\* list(filters): the elements as given, duplicates and all.
listed_filters(fs) == {fs}

\* list(set(filters))
unique_filters(fs) == Orders(Range(fs))

\* _AndList.create; u is the list that list(set(filters)) produced.
_AndList_create(h, u) ==
    IF Len(u) = 0 THEN NewAlways(h)
    ELSE IF Len(u) = 1 THEN Out(h, RetObj(u[1]))
    ELSE New(h, Object("_AndList", "", u, 0))

\* _OrList.create; u is the list that list(set(filters)) produced.
_OrList_create(h, u) ==
    IF Len(u) = 0 THEN NewNever(h)
    ELSE IF Len(u) = 1 THEN Out(h, RetObj(u[1]))
    ELSE New(h, Object("_OrList", "", u, 0))

-----------------------------------------------------------------------------
\* Composition: __and__, __or__, __invert__, __bool__

\* A lookup that never hits: every combination is built anew.
and_cache_missed(h, self, other) == FALSE

\* Whether the and-cache of self holds other.
in_and_cache(h, self, other) == other \in DOMAIN h[self].and_cache

\* Whether the or-cache of self holds other.
in_or_cache(h, self, other) == other \in DOMAIN h[self].or_cache

\* Filter.__and__ without its two tests for a constant operand.
Filter__and__no_shortcut(h, self, other, u) ==
    IF ~IsFilter(h, other) THEN Out(h, Raise("AssertionError", {}))
    ELSE IF in_and_cache(h, self, other)
         THEN Out(h, RetObj(h[self].and_cache[other]))
    ELSE LET c == _AndList_create(h, u) IN
         Out([c.heap EXCEPT ![self].and_cache = (other :> c.ret.obj) @@ @], c.ret)

\* Filter.__and__; u is what list(set([self, other])) would be.
Filter__and__(h, self, other, u) ==
    IF ~IsFilter(h, other) THEN Out(h, Raise("AssertionError", {}))
    ELSE IF isinstance(h, other, {"Always"}) THEN Out(h, RetObj(self))
    ELSE IF isinstance(h, other, {"Never"}) THEN Out(h, RetObj(other))
    ELSE IF in_and_cache(h, self, other)
         THEN Out(h, RetObj(h[self].and_cache[other]))
    ELSE LET c == _AndList_create(h, u) IN
         Out([c.heap EXCEPT ![self].and_cache = (other :> c.ret.obj) @@ @], c.ret)

\* Filter.__or__; u is what list(set([self, other])) would be.
Filter__or__(h, self, other, u) ==
    IF ~IsFilter(h, other) THEN Out(h, Raise("AssertionError", {}))
    ELSE IF isinstance(h, other, {"Always"}) THEN Out(h, RetObj(other))
    ELSE IF isinstance(h, other, {"Never"}) THEN Out(h, RetObj(self))
    ELSE IF in_or_cache(h, self, other)
         THEN Out(h, RetObj(h[self].or_cache[other]))
    ELSE LET c == _OrList_create(h, u) IN
         Out([c.heap EXCEPT ![self].or_cache = (other :> c.ret.obj) @@ @], c.ret)

\* A negation that is built anew at every call and kept nowhere.
Filter__invert__uncached(h, self) == New(h, Object("_Invert", "", <<>>, self))

\* Filter.__invert__: the negation is built once and kept in _invert_result.
Filter__invert__(h, self) ==
    IF h[self].invert_result = 0
    THEN LET c == New(h, Object("_Invert", "", <<>>, self)) IN
         Out([c.heap EXCEPT ![self].invert_result = c.ret.obj], c.ret)
    ELSE Out(h, RetObj(h[self].invert_result))

\* A filter that is as true as any other object.
Filter__bool__truthy(h, self) == Out(h, RetBool(TRUE, {}))

\* Filter.__bool__
Filter__bool__(h, self) == Out(h, Raise("ValueError", {}))

\* Always.__or__
Always__or__(h, self, other) == Out(h, RetObj(self))

\* Always.__invert__
Always__invert__(h, self) == NewNever(h)

\* Never.__and__
Never__and__(h, self, other) == Out(h, RetObj(self))

\* Never.__invert__
Never__invert__(h, self) == NewAlways(h)

\* Condition is no subclass of Filter and defines __init__ and __call__ only:
\* an operator applied to it finds no method, and its truth value is that of
\* any object.
object__bool__(h, self) == Out(h, RetBool(TRUE, {}))

NoOperator(h) == Out(h, Raise("TypeError", {}))

\* Condition.__init__: Condition(func) is an object that holds func.
Condition__init__(h, func) == New(h, Object("Condition", func, <<>>, 0))

\* Condition.__call__: each call makes a new leaf filter around self.func.
Condition__call__(h, self, with_args) ==
    IF with_args THEN Out(h, Raise("ValueError", {}))
    ELSE New(h, Object("_Condition", h[self].func, <<>>, 0))

\* self & other, by the class of self.
and(h, self, other, u) ==
    CASE h[self].cls = "Condition" -> NoOperator(h)
      [] h[self].cls = "Never" -> Never__and__(h, self, other)
      [] OTHER -> Filter__and__(h, self, other, u)

\* self | other, by the class of self.
or(h, self, other, u) ==
    CASE h[self].cls = "Condition" -> NoOperator(h)
      [] h[self].cls = "Always" -> Always__or__(h, self, other)
      [] OTHER -> Filter__or__(h, self, other, u)

\* ~self, by the class of self.
invert(h, self) ==
    CASE h[self].cls = "Condition" -> NoOperator(h)
      [] h[self].cls = "Always" -> Always__invert__(h, self)
      [] h[self].cls = "Never" -> Never__invert__(h, self)
      [] OTHER -> Filter__invert__(h, self)

\* bool(self), by the class of self.
bool(h, self) ==
    IF h[self].cls = "Condition" THEN object__bool__(h, self)
    ELSE Filter__bool__(h, self)

\* self(*args), by the class of self.
call(h, s, self, with_args) ==
    IF h[self].cls = "Condition" THEN Condition__call__(h, self, with_args)
    ELSE Out(h, Filter__call__(h, s, self))

-----------------------------------------------------------------------------
\* The state machine

\* The observation of one operation; state is the application state an
\* evaluation ran in.
Obs(op, self, other, args, state, r) ==
    [op |-> op, self |-> self, other |-> other, args |-> args, state |-> state,
     kind |-> r.kind, obj |-> r.obj, b |-> r.b, exc |-> r.exc, invoked |-> r.invoked]

NoState == [input_mode |-> ""]

NoCall == Obs("none", 0, 0, <<>>, NoState, Raise("", {}))

\* The callbacks in the order the module decorates them.
Decorated == <<"vi_insert_mode", "raising">>

RECURSIVE Import(_)
\* The heap once the first k decorated callbacks are Condition objects.
Import(k) == IF k = 0 THEN <<>> ELSE Condition__init__(Import(k - 1), Decorated[k]).heap

\* The filters of the heap.
Filters(h) == {i \in Ids(h) : IsFilter(h, i)}

\* Lists of at most n filters of the heap.
Lists(h, n) == UNION {[1..k -> Filters(h)] : k \in 0..n}

\* After import: each callback is wrapped, @Condition at module level, and no
\* filter exists yet.
Init ==
    /\ heap = Import(Len(Decorated))
    /\ last = NoCall
    /\ prev = heap

\* One operation runs, from a caller that holds no pending result: the heap
\* is what it left, last is what the caller sees of it, prev the heap it
\* started from.
RECURSIVE CacheEntries(_, _)
\* The number of entries in the and/or caches of the first k objects.
CacheEntries(h, k) ==
    IF k = 0 THEN 0
    ELSE CacheEntries(h, k - 1) + Cardinality(DOMAIN h[k].and_cache)
                                + Cardinality(DOMAIN h[k].or_cache)

Do(op, self, other, args, state, out) ==
    /\ last = NoCall
    /\ Len(out.heap) <= Len(Decorated) + MaxFilters
    /\ CacheEntries(out.heap, Len(out.heap)) <= MaxEntries
    /\ heap' = out.heap
    /\ prev' = heap
    /\ last' = Obs(op, self, other, args, state, out.ret)

\* The caller takes the result and goes on.
Return ==
    /\ last # NoCall
    /\ last' = NoCall
    /\ prev' = heap
    /\ UNCHANGED heap

MakeAlways == \E h \in {heap} : Do("Always", 0, 0, <<>>, NoState, NewAlways(h))

MakeNever == \E h \in {heap} : Do("Never", 0, 0, <<>>, NoState, NewNever(h))

\* x() for any object x in any application state, and x(arg) for a Condition
\* (a filter is called bare).
Call ==
    \E x \in Ids(heap) :
        IF heap[x].cls = "Condition"
        THEN \E a \in BOOLEAN, s \in AppStates :
                Do(IF a THEN "call_args" ELSE "call", x, 0, <<>>, s,
                   call(heap, s, x, a))
        ELSE \E s \in AppStates :
                Do("call", x, 0, <<>>, s, call(heap, s, x, FALSE))

And ==
    \E x \in Ids(heap), v \in Ids(heap) \cup {PlainValue} :
        \E u \in unique_filters(<<x, v>>) :
            Do("and", x, v, <<>>, NoState, and(heap, x, v, u))

Or ==
    \E x \in Ids(heap), v \in Ids(heap) \cup {PlainValue} :
        \E u \in unique_filters(<<x, v>>) :
            Do("or", x, v, <<>>, NoState, or(heap, x, v, u))

Invert == \E x \in Ids(heap) : Do("invert", x, 0, <<>>, NoState, invert(heap, x))

Bool == \E x \in Ids(heap) : Do("bool", x, 0, <<>>, NoState, bool(heap, x))

AndCreate ==
    \E fs \in Lists(heap, MaxLen) :
        \E u \in unique_filters(fs) :
            Do("and_create", 0, 0, fs, NoState, _AndList_create(heap, u))

OrCreate ==
    \E fs \in Lists(heap, MaxLen) :
        \E u \in unique_filters(fs) :
            Do("or_create", 0, 0, fs, NoState, _OrList_create(heap, u))

Next ==
    \/ Return
    \/ MakeAlways
    \/ MakeNever
    \/ Call
    \/ And
    \/ Or
    \/ Invert
    \/ Bool
    \/ AndCreate
    \/ OrCreate

Spec == Init /\ [][Next]_vars

-----------------------------------------------------------------------------
\* Properties

cls(h, i) == h[i].cls

\* The operation last saw was op, applied to a filter.
OnFilter(ops) == last.op \in ops /\ IsFilter(prev, last.self)

\* The value of an evaluation that returned a bool; what it is otherwise.
Same(r1, r2) == r1.kind = r2.kind /\ r1.b = r2.b /\ r1.exc = r2.exc

\* self & other or self | other, by name.
Combine(op, h, self, other, u) ==
    IF op = "and" THEN and(h, self, other, u) ELSE or(h, self, other, u)

\* C1: what Condition(cb) yields is a Filter: calling it returns, in every
\* application state, the bool that cb() returns there, and it combines with
\* &, | and ~.
C1_ConditionYieldsFilter ==
    /\ (last.op = "call" /\ cls(prev, last.self) = "Condition")
            => Same(last, CallFunc(prev[last.self].func, last.state, last.self))
    /\ (last.op \in {"and", "or", "invert"} /\ cls(prev, last.self) = "Condition"
          /\ last.other \in Ids(prev))
            => last.kind = "obj"

\* C2: for fixed filters A and B, every call of A & B (of A | B) returns the
\* object that the first call returned.  Stated as the two steps of the
\* induction over the operations in between: a call that has just returned an
\* object would return that very object again, building nothing; and an answer
\* that was already settled before the latest operation (served without
\* building anything) is the answer after it, whatever that operation was.
C2_CacheStability ==
    /\ (OnFilter({"and", "or"}) /\ last.kind = "obj")
            => \A u \in unique_filters(<<last.self, last.other>>) :
                    Combine(last.op, heap, last.self, last.other, u)
                        = Out(heap, RetObj(last.obj))
    /\ heap # prev =>
        \A op \in {"and", "or"}, a \in Filters(prev), b \in Filters(prev) :
            \A u \in unique_filters(<<a, b>>) :
                LET before == Combine(op, prev, a, b, u) IN
                (before.heap = prev /\ before.ret.kind = "obj")
                    => Combine(op, heap, a, b, u) = Out(heap, before.ret)

\* C2's case: A & B is served again, from the cache, after the node that the
\* first call built has itself been combined with something.
C2_Witness ==
    /\ OnFilter({"and"}) /\ last.kind = "obj"
    /\ cls(heap, last.obj) = "_AndList"
    /\ heap = prev
    /\ DOMAIN heap[last.obj].and_cache \cup DOMAIN heap[last.obj].or_cache # {}

\* C3: combining with a constant builds no combinator node, whichever side
\* the constant is on: X & Always and Always & X are X, X | Never and
\* Never | X are X, X & Never and Never & X are a Never, X | Always and
\* Always | X are an Always; and no node that a combination built and cached
\* has an Always or a Never for a child.  (X is read as "X or, X being a
\* constant, a constant of its class": which of two Always objects comes back
\* is C5's matter.)
SameFilter(h, i, j) ==
    i = j \/ (i \in Ids(h) /\ cls(h, j) \in {"Always", "Never"} /\ cls(h, i) = cls(h, j))

C3_ConstantsBuildNoNode ==
    /\ (OnFilter({"and"}) /\ IsFilter(prev, last.other)) =>
          /\ cls(prev, last.other) = "Always" => SameFilter(heap, last.obj, last.self)
          /\ cls(prev, last.self) = "Always" => SameFilter(heap, last.obj, last.other)
          /\ "Never" \in {cls(prev, last.self), cls(prev, last.other)}
                => (last.kind = "obj" /\ cls(heap, last.obj) = "Never")
    /\ (OnFilter({"or"}) /\ IsFilter(prev, last.other)) =>
          /\ cls(prev, last.other) = "Never" => SameFilter(heap, last.obj, last.self)
          /\ cls(prev, last.self) = "Never" => SameFilter(heap, last.obj, last.other)
          /\ "Always" \in {cls(prev, last.self), cls(prev, last.other)}
                => (last.kind = "obj" /\ cls(heap, last.obj) = "Always")
    /\ \A x \in Filters(heap) :
          \A n \in {heap[x].and_cache[k] : k \in DOMAIN heap[x].and_cache}
                \cup {heap[x].or_cache[k] : k \in DOMAIN heap[x].or_cache} :
              \A c \in Range(heap[n].filters) : cls(heap, c) \notin {"Always", "Never"}

OfClass(h, c) == {i \in Ids(h) : cls(h, i) = c}

\* The latest operation is one that yields the constant c: c(), the negation
\* of the other constant, or the empty AND (for Always) or OR (for Never).
Yields(c) ==
    \/ last.op = c
    \/ last.op = "invert" /\ isinstance(prev, last.self, {"Always", "Never"} \ {c})
    \/ last.op = (IF c = "Always" THEN "and_create" ELSE "or_create") /\ last.args = <<>>

\* The heap h2 is h1 and one new object more.
OneMore(h1, h2) == Len(h2) = Len(h1) + 1 /\ SubSeq(h2, 1, Len(h1)) = h1

C6_Idempotent ==
    /\ (OnFilter({"and", "or"}) /\ last.other = last.self)
            => (last.kind = "obj" /\ last.obj = last.self)
    /\ last.op \in {"and_create", "or_create"} =>
          /\ last.kind = "obj"
          /\ Cardinality(Range(last.args)) = 0 =>
                /\ OneMore(prev, heap) /\ last.obj = Len(heap)
                /\ cls(heap, last.obj) = (IF last.op = "and_create" THEN "Always" ELSE "Never")
          /\ Cardinality(Range(last.args)) = 1 =>
                /\ heap = prev /\ last.obj \in Range(last.args)
          /\ Cardinality(Range(last.args)) >= 2 =>
                /\ OneMore(prev, heap) /\ last.obj = Len(heap)
                /\ cls(heap, last.obj) = (IF last.op = "and_create" THEN "_AndList" ELSE "_OrList")
                /\ Range(heap[last.obj].filters) = Range(last.args)
    /\ \A n \in OfClass(heap, "_AndList") \cup OfClass(heap, "_OrList") :
          /\ Len(heap[n].filters) >= 2
          /\ Cardinality(Range(heap[n].filters)) = Len(heap[n].filters)

\* C6's case: a combinator node combined with itself came back itself.
C6_Witness ==
    /\ OnFilter({"and", "or"})
    /\ last.other = last.self
    /\ cls(prev, last.self) \in {"_AndList", "_OrList"}
    /\ last.obj = last.self

\* What the filter that an operation handed back evaluates to, in state s.
Value(o, s) == Filter__call__(o.heap, s, o.ret.obj)

\* The bools that evaluating the filters fs gives in state s, if bools they
\* all are.
Bools(h, s, fs) == {Filter__call__(h, s, fs[k]).b : k \in DOMAIN fs}

AllBool(h, s, fs) == \A k \in DOMAIN fs : Filter__call__(h, s, fs[k]).kind = "bool"

\* C7: in every application state and for every filter that any sequence of
\* &, | and ~ has built, cached or not, A & B evaluates to A() and B(), A | B
\* to A() or B(), and ~A to not A(); so ~~A evaluates as A does, and A & B as
\* B & A (A | B as B | A), also where they are two objects.  A() and B() are
\* evaluations that return a bool.  The first conjunct is about the
\* evaluation that has just run, the second about every combination that
\* could be made next (looked at between operations: a heap that an
\* operation leaves is the heap after its Return).
C7_Semantics ==
    /\ OnFilter({"call"}) =>
          LET x == heap[last.self] IN
          /\ (x.cls = "_Invert" /\ AllBool(heap, last.state, <<x.filter>>))
                => Same(last, RetBool(~Filter__call__(heap, last.state, x.filter).b, {}))
          /\ (x.cls = "_AndList" /\ AllBool(heap, last.state, x.filters))
                => Same(last, RetBool(FALSE \notin Bools(heap, last.state, x.filters), {}))
          /\ (x.cls = "_OrList" /\ AllBool(heap, last.state, x.filters))
                => Same(last, RetBool(TRUE \in Bools(heap, last.state, x.filters), {}))
    /\ last = NoCall =>
        \A s \in AppStates, a \in Filters(heap) :
            LET ea == Filter__call__(heap, s, a) IN
            ea.kind = "bool" =>
              /\ LET na == invert(heap, a)
                     nna == invert(na.heap, na.ret.obj) IN
                 /\ na.ret.kind = "obj" /\ nna.ret.kind = "obj"
                 /\ Same(Value(na, s), RetBool(~ea.b, {}))
                 /\ Same(Value(nna, s), ea)
              /\ \A b \in Filters(heap) :
                    LET eb == Filter__call__(heap, s, b) IN
                    eb.kind = "bool" =>
                        \A u \in unique_filters(<<a, b>>) :
                          /\ and(heap, a, b, u).ret.kind = "obj"
                          /\ or(heap, a, b, u).ret.kind = "obj"
                          /\ Same(Value(and(heap, a, b, u), s), RetBool(ea.b /\ eb.b, {}))
                          /\ Same(Value(or(heap, a, b, u), s), RetBool(ea.b \/ eb.b, {}))
                          /\ \A u2 \in unique_filters(<<b, a>>) :
                                /\ Same(Value(and(heap, a, b, u), s), Value(and(heap, b, a, u2), s))
                                /\ Same(Value(or(heap, a, b, u), s), Value(or(heap, b, a, u2), s))

\* C7's case: a double negation ~~X has been built and evaluated to a bool.
C7_Witness ==
    /\ OnFilter({"call"})
    /\ cls(heap, last.self) = "_Invert"
    /\ cls(heap, heap[last.self].filter) = "_Invert"
    /\ last.kind = "bool"

C9_NonFilterOperandRejected ==
    (OnFilter({"and", "or"}) /\ ~IsFilter(prev, last.other))
        => (last.kind = "raise" /\ heap = prev)

\* The two operands of the combination that last saw, if it was one.
Operands ==
    IF last.op \in {"and", "or"} THEN <<last.self, last.other>> ELSE last.args

\* C10: an _AndList built from a leaf that returns False followed by a leaf
\* that raises evaluates to False and never invokes the raising leaf; an
\* _OrList built from a leaf that returns True followed by a raising leaf
\* evaluates to True without invoking it: the children are evaluated in the
\* order the operands were given.
C10_ShortCircuitInOperandOrder ==
    (/\ last.op \in {"and", "or", "and_create", "or_create"}
     /\ Len(Operands) = 2
     /\ \A k \in 1..2 : isinstance(prev, Operands[k], {"_Condition"})
     /\ isinstance(heap, last.obj, {"_AndList", "_OrList"}))
        => \A s \in AppStates :
              LET first == Filter__call__(heap, s, Operands[1])
                  second == Filter__call__(heap, s, Operands[2])
                  decides == ~(cls(heap, last.obj) = "_AndList")
                  r == Filter__call__(heap, s, last.obj) IN
              (Same(first, RetBool(decides, {})) /\ second.kind = "raise")
                  => (Same(r, first) /\ Operands[2] \notin r.invoked)

\* The negation nodes that the heap h holds for the filter x.
Negations(h, x) == {i \in Ids(h) : cls(h, i) = "_Invert" /\ h[i].filter = x}

\* The negation of x is settled in h: ~x is served without building anything.
Settled(h, x) == invert(h, x).heap = h

====
